---- MODULE Spec2Model ----
(***************************************************************************)
(* Model of gn_work_log: the Task entity of tasks.py (lifecycle methods    *)
(* start / pause / complete / add_note and the interval accounting of      *)
(* Task.minutes), the TomlHelper conversions between a Task and its TOML   *)
(* record, and the TomlDocument store of main.py as main drives it (load,  *)
(* --add, an update of one task, --errors).                                *)
(*                                                                         *)
(* Time.  A datetime is modelled as an integer number of ticks since       *)
(* midnight of day 0 (UTC); TicksPerSecond ticks make one second, so the   *)
(* sub-second part of a datetime (its microseconds) is kept.  An interval  *)
(* is a pair <<start, end>>; an open interval has end = None.              *)
(*                                                                         *)
(* Numbers.  Task.minutes returns the float seconds / 60; it is modelled   *)
(* as the fraction [num |-> seconds, den |-> 60].                          *)
(***************************************************************************)
EXTENDS Integers, Sequences, FiniteSets, TLC

VARIABLES task, clock, call, outcome, ret, arg, file, file0, doc, pc

vars == <<task, clock, call, outcome, ret, arg, file, file0, doc, pc>>

\* the state of the store and of main, which the specifications of the Task
\* alone leave as it is
storeVars == <<arg, file, file0, doc, pc>>

(* ------------------------------ bounds --------------------------------- *)

\* ticks per second: the resolution kept below one second
TicksPerSecond == 2

\* calendar days 0..MaxDay
MaxDay == 1

\* largest number of intervals a task accumulates
MaxTimes == 2

\* largest number of notes a task accumulates
MaxNotes == 2

(* ------------------------------- time ---------------------------------- *)

\* the end of an open interval
None == -1

SecondsPerDay == 86400

SecondsPerMinute == 60

TicksPerDay == SecondsPerDay * TicksPerSecond

HMS(h, m, s) == ((h * 60 + m) * 60 + s) * TicksPerSecond

\* 10:00:00 plus a fraction, 10:00:59, 23:59:59 plus a fraction
TimesOfDay == {HMS(10, 0, 0) + 1, HMS(10, 0, 59), HMS(23, 59, 59) + 1}

Instants == {d * TicksPerDay + x : d \in 0..MaxDay, x \in TimesOfDay}

\* datetime.date()
DateOf(t) == t \div TicksPerDay

\* variant: the delta rounded to the nearest second, as round(total_seconds())
TimedeltaSeconds_rounded(start, end) ==
  (((end - start) % TicksPerDay) + TicksPerSecond \div 2) \div TicksPerSecond

\* timedelta.seconds of (end - start): the delta is normalised to
\* days (possibly negative), 0 <= seconds < 86400 and microseconds >= 0
TimedeltaSeconds(start, end) == ((end - start) % TicksPerDay) \div TicksPerSecond

(* ------------------------------- Task ---------------------------------- *)

CREATED == "CREATED"

RUNNING == "RUNNING"

PAUSED == "PAUSED"

COMPLETED == "COMPLETED"

TaskStates == {CREATED, RUNNING, PAUSED, COMPLETED}

NoteTexts == {"n1", "n2"}

Last(s) == s[Len(s)]

\* variant: start sets RUNNING whatever the status was
StartStatus_always(st) == RUNNING

\* status after the first statement of Task.start
StartStatus(st) == IF st = CREATED \/ st = PAUSED THEN RUNNING ELSE st

\* variant: start without the check of the previous interval
StartRaises_never(tms) == FALSE

\* the isinstance check of Task.start on the previous interval
StartRaises(tms) == tms # <<>> /\ Last(tms)[2] = None

\* variant: start appends the interval before it checks the previous one
start_appendFirst(t, now) ==
  LET t1 == [t EXCEPT !.status = StartStatus(t.status)]
  IN [task |-> [t1 EXCEPT !.times = Append(t1.times, <<now, None>>)],
      outcome |-> IF StartRaises(t1.times) THEN "TypeError" ELSE "ok"]

\* Task.start
start(t, now) ==
  LET t1 == [t EXCEPT !.status = StartStatus(t.status)]
  IN IF StartRaises(t1.times)
       THEN [task |-> t1, outcome |-> "TypeError"]
       ELSE [task |-> [t1 EXCEPT !.times = Append(t1.times, <<now, None>>)],
             outcome |-> "ok"]

\* variant: only a completed task is turned away
NotRunning_completedOnly(st) == st = COMPLETED

\* the guard of Task.pause and Task.complete
NotRunning(st) == st # RUNNING

\* variant: the status is set but the end of the last interval is not written
CloseLast_keepOpen(t, newStatus, now) ==
  LET t1 == [t EXCEPT !.status = newStatus]
  IN IF t1.times = <<>>
       THEN [task |-> t1, outcome |-> "IndexError"]
       ELSE IF Last(t1.times)[2] # None
         THEN [task |-> t1, outcome |-> "TypeError"]
         ELSE [task |-> t1, outcome |-> "ok"]

\* variant: closes times[0] instead of times[-1]
CloseLast_first(t, newStatus, now) ==
  LET t1 == [t EXCEPT !.status = newStatus]
  IN IF t1.times = <<>>
       THEN [task |-> t1, outcome |-> "IndexError"]
       ELSE IF Last(t1.times)[2] # None
         THEN [task |-> t1, outcome |-> "TypeError"]
         ELSE [task |-> [t1 EXCEPT !.times[1] = <<t1.times[1][1], now>>],
               outcome |-> "ok"]

\* the body shared by Task.pause and Task.complete after the guard
CloseLast(t, newStatus, now) ==
  LET t1 == [t EXCEPT !.status = newStatus]
  IN IF t1.times = <<>>
       THEN [task |-> t1, outcome |-> "IndexError"]
       ELSE IF Last(t1.times)[2] # None
         THEN [task |-> t1, outcome |-> "TypeError"]
         ELSE [task |-> [t1 EXCEPT !.times[Len(t1.times)] = <<Last(t1.times)[1], now>>],
               outcome |-> "ok"]

\* Task.pause
pause(t, now) ==
  IF NotRunning(t.status)
    THEN [task |-> t, outcome |-> "noop"]
    ELSE CloseLast(t, PAUSED, now)

\* Task.complete
complete(t, now) ==
  IF NotRunning(t.status)
    THEN [task |-> t, outcome |-> "noop"]
    ELSE CloseLast(t, COMPLETED, now)

\* variant: the note is put in front of the others
add_note_prepend(t, note) == [t EXCEPT !.notes = <<note>> \o t.notes]

\* Task.add_note
add_note(t, note) == [t EXCEPT !.notes = Append(t.notes, note)]

\* variant: an open interval counts for nothing
EndOrNow_start(iv, now) == IF iv[2] = None THEN iv[1] ELSE iv[2]

\* the end the loop of Task.minutes uses for an interval
EndOrNow(iv, now) == IF iv[2] = None THEN now ELSE iv[2]

\* variant: the day check skips an open interval
DayMismatch_closedOnly(iv, now) == iv[2] # None /\ DateOf(iv[2]) # DateOf(iv[1])

\* the day check of Task.minutes on one interval
DayMismatch(iv, now) == DateOf(EndOrNow(iv, now)) # DateOf(iv[1])

RECURSIVE MinutesLoop(_, _, _, _)
\* the for loop of Task.minutes from interval i on, seconds accumulated so far
MinutesLoop(tms, i, seconds, now) ==
  IF i > Len(tms)
    THEN [outcome |-> "ok", ret |-> [num |-> seconds, den |-> SecondsPerMinute]]
    ELSE IF DayMismatch(tms[i], now)
      THEN [outcome |-> "RuntimeError", ret |-> None]
      ELSE MinutesLoop(tms, i + 1,
                       seconds + TimedeltaSeconds(tms[i][1], EndOrNow(tms[i], now)),
                       now)

\* Task.minutes
minutes(tms, now) == MinutesLoop(tms, 1, 0, now)

(* ----------------------------- TomlHelper ------------------------------ *)

TicksPerMinute == SecondsPerMinute * TicksPerSecond

\* datetime.strftime(DATE_FORMAT): day and minute of the day, no seconds;
\* the text "<day>T<minute of day>" stands for "YYYY-MM-DDTHH:MM"
Strftime(t) == ToString(DateOf(t)) \o "T" \o ToString((t % TicksPerDay) \div TicksPerMinute)

\* the whole minutes of the days 0..MaxDay that the model's timestamps fall in
MinuteInstants ==
  {d * TicksPerDay + m * TicksPerMinute : d \in 0..MaxDay,
     m \in {600, 603, 605, 1439}}

\* datetime.strptime(s, DATE_FORMAT).replace(tzinfo=timezone.utc)
Strptime(s) == CHOOSE t \in MinuteInstants : Strftime(t) = s

\* str.lower() on the spellings of the open-interval sentinel
Lower(s) == IF s \in {"None", "NONE", "none"} THEN "none" ELSE s

\* the end written for an interval: str(y) if y is None else y.strftime(DATE_FORMAT)
EndText(y) == IF y = None THEN "None" ELSE Strftime(y)

\* the end read for an interval
EndValue(y) == IF Lower(y) = "none" THEN None ELSE Strptime(y)

\* variant: the end of a closed interval is formatted from x instead of y
serialize_endFromStart(t) ==
  [uuid |-> t.uuid,
   description |-> t.description,
   status |-> t.status,
   times |-> [i \in 1..Len(t.times) |->
                <<Strftime(t.times[i][1]),
                  IF t.times[i][2] = None THEN "None" ELSE Strftime(t.times[i][1])>>],
   notes |-> t.notes]

\* TomlHelper.serialize (with_minutes=False)
serialize(t) ==
  [uuid |-> t.uuid,
   description |-> t.description,
   status |-> t.status,
   times |-> [i \in 1..Len(t.times) |->
                <<Strftime(t.times[i][1]), EndText(t.times[i][2])>>],
   notes |-> t.notes]

\* TomlHelper.deserialize of a record that has the five task fields and
\* possibly "minutes"
deserialize(rec) ==
  [f \in DOMAIN rec \ {"minutes"} |->
     IF f = "times"
       THEN [i \in 1..Len(rec.times) |->
               <<Strptime(rec.times[i][1]), EndValue(rec.times[i][2])>>]
       ELSE rec[f]]

(* --------------------- a task driven by its methods -------------------- *)

\* the task TomlDocument.add_task constructs
NewTask ==
  [uuid |-> "u1", description |-> "d1", status |-> CREATED, times |-> <<>>, notes |-> <<>>]

FirstInstant == CHOOSE t \in Instants : \A u \in Instants : t <= u

\* no file
NoFile == [exists |-> FALSE, top |-> <<>>]

\* no TomlDocument constructed
NoDoc == [working_date |-> "", other_data |-> <<>>, tasks_data |-> <<>>]

\* no argument
NoArg == [name |-> "none"]

\* no process of main is running and there is no backing file
NoStore ==
  /\ arg = NoArg
  /\ file = NoFile
  /\ file0 = NoFile
  /\ doc = NoDoc
  /\ pc = "idle"

Init ==
  /\ NoStore
  /\ task = NewTask
  /\ clock = FirstInstant
  /\ call = "add_task"
  /\ outcome = "ok"
  /\ ret = None

\* datetime.now(timezone.utc): never earlier than the previous reading
Now(now) == now \in Instants /\ now >= clock

Start ==
  \E now \in Instants :
    /\ UNCHANGED storeVars
    /\ Now(now)
    /\ LET r == start(task, now)
       IN /\ Len(r.task.times) <= MaxTimes
          /\ task' = r.task
          /\ outcome' = r.outcome
    /\ clock' = now
    /\ call' = "start"
    /\ ret' = None

Pause ==
  \E now \in Instants :
    /\ UNCHANGED storeVars
    /\ Now(now)
    /\ LET r == pause(task, now)
       IN /\ task' = r.task
          /\ outcome' = r.outcome
    /\ clock' = now
    /\ call' = "pause"
    /\ ret' = None

Complete ==
  \E now \in Instants :
    /\ UNCHANGED storeVars
    /\ Now(now)
    /\ LET r == complete(task, now)
       IN /\ task' = r.task
          /\ outcome' = r.outcome
    /\ clock' = now
    /\ call' = "complete"
    /\ ret' = None

AddNote ==
  \E note \in NoteTexts :
    /\ UNCHANGED storeVars
    /\ Len(task.notes) < MaxNotes
    /\ task' = add_note(task, note)
    /\ call' = "add_note"
    /\ outcome' = "ok"
    /\ ret' = None
    /\ UNCHANGED clock

Minutes ==
  \E now \in Instants :
    /\ UNCHANGED storeVars
    /\ Now(now)
    /\ LET r == minutes(task.times, now)
       IN /\ outcome' = r.outcome
          /\ ret' = r.ret
    /\ clock' = now
    /\ call' = "minutes"
    /\ UNCHANGED task

Next == Start \/ Pause \/ Complete \/ AddNote \/ Minutes

Spec == Init /\ [][Next]_vars

(* ------------- Task.minutes on an arbitrary task record ---------------- *)

\* the instants a stored record's timestamps are drawn from: DATE_FORMAT
\* has no seconds, so strptime yields whole minutes (10:03 and 10:05 of a day)
RecInstants == {d * TicksPerDay + x : d \in 0..MaxDay, x \in {HMS(10, 3, 0), HMS(10, 5, 0)}}

\* the (start, end) pairs TomlHelper.deserialize can produce
RecIntervals == RecInstants \X (RecInstants \cup {None})

\* the interval lists TomlHelper.deserialize can produce
RecTimes == UNION {[1..n -> RecIntervals] : n \in 0..MaxTimes}

\* a task as loaded from a record; Task.minutes reads only its times
InitMinutes ==
  /\ NoStore
  /\ task \in {[NewTask EXCEPT !.status = COMPLETED, !.times = tms] : tms \in RecTimes}
  /\ clock = FirstInstant
  /\ call = "deserialize"
  /\ outcome = "ok"
  /\ ret = None

MinutesOfRecord ==
  \E now \in Instants :
    /\ UNCHANGED storeVars
    /\ LET r == minutes(task.times, now)
       IN /\ outcome' = r.outcome
          /\ ret' = r.ret
    /\ clock' = now
    /\ call' = "minutes"
    /\ UNCHANGED task

NextMinutes == MinutesOfRecord

SpecMinutes == InitMinutes /\ [][NextMinutes]_vars

(* ------------- TomlHelper on an arbitrary well-formed record ----------- *)

\* the spellings of the open-interval sentinel found in a record
SentinelTexts == {"none", "None"}

\* the [start, end] string pairs of a well-formed record
RecTextIntervals ==
  {Strftime(a) : a \in RecInstants} \X ({Strftime(b) : b \in RecInstants} \cup SentinelTexts)

\* well-formed serialized task records
Records ==
  {[uuid |-> "u1", description |-> "d1", status |-> PAUSED, times |-> tms, notes |-> nts] :
     tms \in UNION {[1..n -> RecTextIntervals] : n \in 0..MaxTimes},
     nts \in {<<>>, <<"n1">>}}

InitSerialize ==
  /\ arg \in Records
  /\ file = NoFile
  /\ file0 = NoFile
  /\ doc = NoDoc
  /\ pc = "idle"
  /\ task = NewTask
  /\ clock = FirstInstant
  /\ call = "record"
  /\ outcome = "ok"
  /\ ret = None

\* task = TomlHelper.deserialize(x)
DeserializeRecord ==
  /\ call = "record"
  /\ task' = deserialize(arg)
  /\ call' = "deserialize"
  /\ UNCHANGED <<clock, outcome, ret, storeVars>>

\* TomlHelper.serialize(task)
SerializeTask ==
  /\ call = "deserialize"
  /\ ret' = serialize(task)
  /\ call' = "serialize"
  /\ UNCHANGED <<task, clock, outcome, storeVars>>

NextSerialize == DeserializeRecord \/ SerializeTask

SpecSerialize == InitSerialize /\ [][NextSerialize]_vars

(* ------------------------ TomlDocument and main ------------------------ *)

\* class Actions
ActionNames == {"start", "pause", "complete", "note"}

\* the methods and fields an instance of Task has
TaskAttributes ==
  {"uuid", "description", "status", "times", "notes", "tex_description", "minutes",
   "terminal_report", "terminal_report_with_uuid", "start", "pause", "complete", "add_note"}

\* the days main is run on, and the values of --date
StoreDays == {0, 1}

\* date.isoformat(): the text "D<day>" stands for "YYYY-MM-DD"
DateKey(d) == "D" \o ToString(d)

DateKeys == {DateKey(d) : d \in StoreDays}

\* the readings of the clock seen by main: 10:00 of every day
StoreInstants == {d * TicksPerDay + HMS(10, 0, 0) : d \in StoreDays}

\* the values uuid.uuid4() gives, as sequences of characters
UUIDs == {<<"a", "b">>, <<"a", "c">>}

\* the values of --task
Fragments == {<<"a">>, <<"a", "b">>, <<"x">>}

\* the values of --note; "" stands for a note that is not given
NoteArgs == {"", "n1"}

\* largest number of tasks in the store: one for every uuid
MaxTasks == Cardinality(UUIDs)

\* uuid in str(x.uuid)
Contains(frag, u) ==
  \E i \in 0..(Len(u) - Len(frag)) : SubSeq(u, i + 1, i + Len(frag)) = frag

\* top-level values of the TOML file: a scalar, a table, a list
Scalar(text) == [kind |-> "scalar", text |-> text, items |-> <<>>]

Table(text) == [kind |-> "table", text |-> text, items |-> <<>>]

ListOf(items) == [kind |-> "list", text |-> "", items |-> items]

\* d[k] = v on a dict
Put(d, k, v) == [x \in DOMAIN d \cup {k} |-> IF x = k THEN v ELSE d[x]]

\* Task(**toml_dict) accepts the record
IsTaskRecord(x) ==
  /\ {"uuid", "description", "status", "times", "notes"} \subseteq DOMAIN x
  /\ DOMAIN x \subseteq {"uuid", "description", "status", "times", "notes", "minutes"}

\* TomlDocument._parse raises: an element of a list is no task record
ParseRaises(top) ==
  \E k \in DOMAIN top :
    /\ top[k].kind = "list"
    /\ \E i \in 1..Len(top[k].items) : ~IsTaskRecord(top[k].items[i])

\* TomlDocument._parse
parse(top) ==
  LET lists == {k \in DOMAIN top : top[k].kind = "list"}
  IN [other_data |-> [k \in DOMAIN top \ lists |-> top[k]],
      tasks_data |-> [k \in lists |->
                        [i \in 1..Len(top[k].items) |-> deserialize(top[k].items[i])]]]

\* TomlDocument.write: the file contents written
write(d) ==
  [exists |-> TRUE,
   top |-> [k \in DOMAIN d.other_data \cup DOMAIN d.tasks_data |->
              IF k \in DOMAIN d.tasks_data
                THEN ListOf([i \in 1..Len(d.tasks_data[k]) |-> serialize(d.tasks_data[k][i])])
                ELSE d.other_data[k]]]

\* TomlDocument._create_empty_doc: the file after it
create_empty_doc(f) ==
  IF f.exists THEN f ELSE [exists |-> TRUE, top |-> ("version" :> Scalar("0.0.0"))]

\* variant: the date's list is set to the new task alone (no setdefault)
add_task_replace(d, description, date, u) ==
  LET new == [NewTask EXCEPT !.uuid = u, !.description = description]
  IN [d EXCEPT !.tasks_data = Put(d.tasks_data, date, <<new>>)]

\* TomlDocument.add_task up to its write: the document with the task added
add_task(d, description, date, u) ==
  LET new == [NewTask EXCEPT !.uuid = u, !.description = description]
      old == IF date \in DOMAIN d.tasks_data THEN d.tasks_data[date] ELSE <<>>
  IN [d EXCEPT !.tasks_data = Put(d.tasks_data, date, Append(old, new))]

\* the match statement of TomlDocument.update_task on the task found
dispatch(t, action, note, now) ==
  CASE action = "start" -> start(t, now)
    [] action = "pause" -> pause(t, now)
    [] action = "complete" -> complete(t, now)
    [] action = "note" ->
         IF note = ""
           THEN [task |-> t, outcome |-> "AttributeError"]
           ELSE [task |-> add_note(t, note), outcome |-> "ok"]

\* variant: the note is appended and the store written before the note is checked
update_task_checkLate(d, frag, action, note, now) ==
  IF d.working_date \notin DOMAIN d.tasks_data
    THEN [doc |-> d, outcome |-> "KeyError", written |-> FALSE]
    ELSE
      LET today_tasks == d.tasks_data[d.working_date]
          relevant == {i \in 1..Len(today_tasks) : Contains(frag, today_tasks[i].uuid)}
      IN IF relevant = {}
           THEN [doc |-> d, outcome |-> "LookupError: No tasks found", written |-> FALSE]
           ELSE IF Cardinality(relevant) > 1
             THEN [doc |-> d, outcome |-> "LookupError: More than 1 task found",
                   written |-> FALSE]
             ELSE
               LET i == CHOOSE j \in relevant : TRUE
                   r == IF action = "note"
                          THEN [task |-> add_note(today_tasks[i], note),
                                outcome |-> IF note = "" THEN "AttributeError" ELSE "ok"]
                          ELSE dispatch(today_tasks[i], action, note, now)
               IN [doc |-> [d EXCEPT !.tasks_data[d.working_date][i] = r.task],
                   outcome |-> r.outcome,
                   written |-> action = "note" \/ r.outcome \in {"ok", "noop"}]

\* TomlDocument.update_task up to its write: the document after the call, how
\* the call ended and whether it reached self.write()
update_task(d, frag, action, note, now) ==
  IF d.working_date \notin DOMAIN d.tasks_data
    THEN [doc |-> d, outcome |-> "KeyError", written |-> FALSE]
    ELSE
      LET today_tasks == d.tasks_data[d.working_date]
          relevant == {i \in 1..Len(today_tasks) : Contains(frag, today_tasks[i].uuid)}
      IN IF relevant = {}
           THEN [doc |-> d, outcome |-> "LookupError: No tasks found", written |-> FALSE]
           ELSE IF Cardinality(relevant) > 1
             THEN [doc |-> d, outcome |-> "LookupError: More than 1 task found",
                   written |-> FALSE]
             ELSE
               LET i == CHOOSE j \in relevant : TRUE
                   r == dispatch(today_tasks[i], action, note, now)
               IN [doc |-> [d EXCEPT !.tasks_data[d.working_date][i] = r.task],
                   outcome |-> r.outcome,
                   written |-> r.outcome \in {"ok", "noop"}]

\* TomlDocument.errors: how the call ended and the tasks it printed
errors(d, now) ==
  LET today_key == DateKey(DateOf(now))
      found == {<<k, i>> \in (DOMAIN d.tasks_data) \X (1..MaxTasks) :
                  /\ k # today_key
                  /\ i <= Len(d.tasks_data[k])
                  /\ d.tasks_data[k][i].status # COMPLETED}
  IN IF found = {}
       THEN [outcome |-> "ok", reported |-> {}]
       ELSE IF "report" \in TaskAttributes
         THEN [outcome |-> "ok", reported |-> found]
         ELSE [outcome |-> "AttributeError", reported |-> {}]

\* the files main may be started on: none; one with a scalar, a table and a
\* scalar under the key of day 0; one with a list of tables that are no tasks
InitialFiles ==
  {NoFile,
   [exists |-> TRUE,
    top |-> ("version" :> Scalar("0.0.0") @@ "conf" :> Table("t") @@ DateKey(0) :> Scalar("s"))],
   [exists |-> TRUE, top |-> ("version" :> Scalar("0.0.0") @@ "tags" :> ListOf(<<[name |-> "x"]>>))]}

\* the number of tasks in the document
TaskCount(d) ==
  Cardinality({<<k, i>> \in (DOMAIN d.tasks_data) \X (1..MaxTasks) : i <= Len(d.tasks_data[k])})

\* the uuids in the document
UsedUUIDs(d) ==
  {d.tasks_data[k][i].uuid : <<k, i>> \in
     {<<k, i>> \in (DOMAIN d.tasks_data) \X (1..MaxTasks) : i <= Len(d.tasks_data[k])}}

\* no task of the document has more than one interval or more than one note
WithinBounds(d) ==
  \A k \in DOMAIN d.tasks_data : \A i \in 1..Len(d.tasks_data[k]) :
    /\ Len(d.tasks_data[k][i].times) <= 1
    /\ Len(d.tasks_data[k][i].notes) <= 1

InitStore ==
  /\ file \in InitialFiles
  /\ file0 = file
  /\ doc = NoDoc
  /\ pc = "idle"
  /\ arg = NoArg
  /\ task = NewTask
  /\ clock \in StoreInstants
  /\ \A t \in StoreInstants : clock <= t
  /\ call = "none"
  /\ outcome = "ok"
  /\ ret = None

\* main up to line 271: TomlDocument(filename, date_key)
Invoke ==
  \E date \in DateKeys :
    /\ pc = "idle"
    /\ file0' = file
    /\ file' = create_empty_doc(file)
    /\ call' = "load"
    /\ arg' = [name |-> "load", date |-> date]
    /\ ret' = None
    /\ IF ParseRaises(file'.top)
         THEN /\ doc' = NoDoc
              /\ outcome' = "TypeError"
              /\ pc' = "failed"
         ELSE /\ doc' = [working_date |-> date,
                         other_data |-> parse(file'.top).other_data,
                         tasks_data |-> parse(file'.top).tasks_data]
              /\ outcome' = "ok"
              /\ pc' = "add"
    /\ UNCHANGED <<task, clock>>

\* main line 273-274 with --add
AddTask ==
  \E u \in UUIDs :
    /\ pc = "add"
    /\ TaskCount(doc) < MaxTasks
    /\ u \notin UsedUUIDs(doc)
    /\ doc' = add_task(doc, "d1", doc.working_date, u)
    /\ file' = write(doc')
    /\ call' = "add_task"
    /\ arg' = [name |-> "add_task", date |-> doc.working_date, uuid |-> u]
    /\ outcome' = "ok"
    /\ ret' = None
    /\ pc' = "update"
    /\ UNCHANGED <<task, clock, file0>>

\* main line 273 without --add
SkipAdd ==
  /\ pc = "add"
  /\ pc' = "update"
  /\ UNCHANGED <<task, clock, call, outcome, ret, arg, file, file0, doc>>

\* main line 296-297 with --task and an action
UpdateTask ==
  \E frag \in Fragments, action \in ActionNames, note \in NoteArgs, now \in StoreInstants :
    /\ pc = "update"
    /\ action # "note" => note = ""
    /\ now >= clock
    /\ LET r == update_task(doc, frag, action, note, now)
       IN /\ WithinBounds(r.doc)
          /\ doc' = r.doc
          /\ outcome' = r.outcome
          /\ file' = IF r.written THEN write(r.doc) ELSE file
          /\ pc' = IF r.outcome \in {"ok", "noop"} THEN "errors" ELSE "failed"
    /\ call' = "update_task"
    /\ arg' = [name |-> "update_task", task |-> frag, action |-> action, note |-> note]
    /\ ret' = None
    /\ clock' = now
    /\ UNCHANGED <<task, file0>>

\* main line 296 without --task or without an action
SkipUpdate ==
  /\ pc = "update"
  /\ pc' = "errors"
  /\ UNCHANGED <<task, clock, call, outcome, ret, arg, file, file0, doc>>

\* main line 298-299 with --errors, and the end of main
Errors ==
  \E now \in StoreInstants :
    /\ pc = "errors"
    /\ now >= clock
    /\ LET r == errors(doc, now)
       IN /\ outcome' = r.outcome
          /\ ret' = r.reported
          /\ pc' = IF r.outcome = "ok" THEN "idle" ELSE "failed"
          /\ doc' = IF r.outcome = "ok" THEN NoDoc ELSE doc
    /\ call' = "errors"
    /\ arg' = NoArg
    /\ clock' = now
    /\ UNCHANGED <<task, file, file0>>

\* main line 298 without --errors: the process ends
SkipErrors ==
  /\ pc = "errors"
  /\ pc' = "idle"
  /\ doc' = NoDoc
  /\ UNCHANGED <<task, clock, call, outcome, ret, arg, file, file0>>

\* the process ends with the exception that was raised
Exit ==
  /\ pc = "failed"
  /\ pc' = "idle"
  /\ doc' = NoDoc
  /\ UNCHANGED <<task, clock, call, outcome, ret, arg, file, file0>>

NextStore == Invoke \/ AddTask \/ SkipAdd \/ UpdateTask \/ SkipUpdate \/ Errors \/ SkipErrors \/ Exit

SpecStore == InitStore /\ [][NextStore]_vars

(* ------------------------------ properties ----------------------------- *)

IsOpen(iv) == iv[2] = None

AllClosed(tms) == \A i \in 1..Len(tms) : ~IsOpen(tms[i])

\* the end of an interval as the accounting should see it at instant now
EndAt(iv, now) == IF IsOpen(iv) THEN now ELSE iv[2]

\* an interval that ends (or, open, is read) on another calendar day than it starts
CrossesDay(iv, now) == EndAt(iv, now) \div TicksPerDay # iv[1] \div TicksPerDay

RECURSIVE SumWholeSeconds(_, _)
\* sum over the intervals of (end - start) in whole seconds
SumWholeSeconds(tms, now) ==
  IF tms = <<>> THEN 0
  ELSE (EndAt(Last(tms), now) - Last(tms)[1]) \div TicksPerSecond
       + SumWholeSeconds(SubSeq(tms, 1, Len(tms) - 1), now)

\* tms reordered by the permutation p of its indices
Reordered(tms, p) == [i \in 1..Len(tms) |-> tms[p[i]]]

Edges == {<<CREATED, RUNNING>>, <<PAUSED, RUNNING>>, <<RUNNING, PAUSED>>, <<RUNNING, COMPLETED>>}

\* C1: a successful start appends exactly the interval (now, open) and changes
\* no existing interval; a successful pause or complete sets the end of the
\* last, open interval to now and leaves the number of intervals and every
\* earlier interval as they were.
C1_IntervalFrame ==
  [][ /\ (call' = "start" /\ outcome' = "ok")
         => task'.times = Append(task.times, <<clock', None>>)
      /\ (call' \in {"pause", "complete"} /\ outcome' = "ok")
         => /\ task.times # <<>>
            /\ IsOpen(Last(task.times))
            /\ Len(task'.times) = Len(task.times)
            /\ Last(task'.times) = <<Last(task.times)[1], clock'>>
            /\ \A i \in 1..(Len(task.times) - 1) : task'.times[i] = task.times[i]
    ]_vars

\* C1 witness: a complete has just closed the second interval of a task
C1_Witness ==
  /\ call = "complete" /\ outcome = "ok"
  /\ Len(task.times) = 2
  /\ AllClosed(task.times)

\* C2: at most one interval of the task is open, and an open interval is the
\* last element of the interval list.
C2_OneOpenLast ==
  \A i \in 1..Len(task.times) : IsOpen(task.times[i]) => i = Len(task.times)

\* C2 witness: a resumed task, one closed interval followed by the open one
C2_Witness ==
  /\ Len(task.times) = 2
  /\ ~IsOpen(task.times[1])
  /\ IsOpen(task.times[2])
  /\ task.status = RUNNING

\* C3: the status changes only along Created->Running, Paused->Running,
\* Running->Paused and Running->Completed; a Completed status never changes.
C3_StatusEdges ==
  [][ task'.status # task.status => <<task.status, task'.status>> \in Edges ]_vars

\* C3 witness: start has been called on a completed task, which is still completed
C3_Witness ==
  /\ task.status = COMPLETED
  /\ call = "start"

\* C4 (as claimed): start on a Running or Completed task neither appends an
\* interval nor changes the status.
C4_StartOnlyFromCreatedOrPaused ==
  [][ (call' = "start" /\ task.status \in {RUNNING, COMPLETED})
      => (task'.times = task.times /\ task'.status = task.status) ]_vars

C6_NotRunningNoop ==
  [][ (call' \in {"pause", "complete"} /\ task.status # RUNNING)
      => (outcome' = "noop" /\ task' = task) ]_vars

\* C6 witness: a pause or complete has just been turned away on a paused task
\* that has a note
C6_Witness ==
  /\ call \in {"pause", "complete"} /\ outcome = "noop"
  /\ task.status = PAUSED
  /\ task.notes # <<>>

\* C7: for a task whose intervals are all closed (each within one calendar
\* day), minutes is the sum of the intervals' whole-second lengths over 60,
\* and every permutation of the interval list gives the same result.
C7_MinutesIsSum ==
  (call = "minutes" /\ AllClosed(task.times))
  => /\ (\A i \in 1..Len(task.times) : ~CrossesDay(task.times[i], clock))
        => /\ outcome = "ok"
           /\ ret = [num |-> SumWholeSeconds(task.times, clock), den |-> 60]
     /\ \A p \in Permutations(1..Len(task.times)) :
          minutes(Reordered(task.times, p), clock) = [outcome |-> outcome, ret |-> ret]

\* C7 witness: minutes has returned for a task with two closed intervals of
\* different positive lengths
C7_Witness ==
  /\ call = "minutes" /\ outcome = "ok"
  /\ Len(task.times) = 2
  /\ AllClosed(task.times)
  /\ task.times[1][2] - task.times[1][1] > 0
  /\ task.times[2][2] - task.times[2][1] > task.times[1][2] - task.times[1][1]

\* C8: minutes on a task whose last interval is open counts that interval
\* from its start to the current instant, and leaves the task as it was (the
\* interval still open; status, intervals and notes unchanged).
C8_OpenCountedToNow ==
  [][ call' = "minutes"
      => /\ task' = task
         /\ (/\ task.times # <<>>
             /\ IsOpen(Last(task.times))
             /\ \A i \in 1..Len(task.times) : ~CrossesDay(task.times[i], clock'))
            => /\ outcome' = "ok"
               /\ ret' = [num |-> SumWholeSeconds(task.times, clock'), den |-> 60]
    ]_vars

\* C8 witness: minutes has returned for a running task whose open interval
\* has lasted at least a second, after a closed one
C8_Witness ==
  /\ call = "minutes" /\ outcome = "ok"
  /\ Len(task.times) = 2
  /\ IsOpen(task.times[2])
  /\ ret.num > SumWholeSeconds(SubSeq(task.times, 1, 1), clock)

\* C9: minutes fails with the temporal-invariant error (RuntimeError) and
\* returns nothing whenever some interval's end, or the current instant for an
\* open interval, is on another calendar day than the interval's start.
C9_CrossDayFails ==
  (call = "minutes" /\ \E i \in 1..Len(task.times) : CrossesDay(task.times[i], clock))
  => (outcome = "RuntimeError" /\ ret = None)

\* C9 witness: minutes has failed on a record whose first interval is within
\* one day and whose second, open interval started the day before
C9_Witness ==
  /\ call = "minutes" /\ outcome = "RuntimeError"
  /\ Len(task.times) = 2
  /\ ~CrossesDay(task.times[1], clock)
  /\ IsOpen(task.times[2])

\* C10 (as claimed): minutes fails with the temporal-invariant error whenever
\* a closed interval's end is earlier than its start, the same day included.
C10_ReversedFails ==
  (call = "minutes"
   /\ \E i \in 1..Len(task.times) :
        ~IsOpen(task.times[i]) /\ task.times[i][2] < task.times[i][1])
  => outcome = "RuntimeError"

\* C17: uuid and description never change; add_note appends its text as the
\* last note in whatever status the task is and changes neither status nor
\* intervals; no other operation changes the notes.
C17_NotesAppendOnly ==
  [][ /\ task'.uuid = task.uuid
      /\ task'.description = task.description
      /\ call' = "add_note"
         => /\ outcome' = "ok"
            /\ \E n \in NoteTexts : task'.notes = task.notes \o <<n>>
            /\ task'.status = task.status
            /\ task'.times = task.times
      /\ call' # "add_note" => task'.notes = task.notes
    ]_vars

\* C17 witness: a second, different note has just been added to a completed task
C17_Witness ==
  /\ call = "add_note"
  /\ task.status = COMPLETED
  /\ Len(task.notes) = 2
  /\ task.notes[1] # task.notes[2]

\* C18 (as claimed): the task has an open interval exactly when it is Running,
\* a Created task has no intervals, and a Paused or Completed task has at
\* least one interval and only closed ones.
C18_StatusMatchesIntervals ==
  /\ (\E i \in 1..Len(task.times) : IsOpen(task.times[i])) <=> task.status = RUNNING
  /\ task.status = CREATED => task.times = <<>>
  /\ task.status \in {PAUSED, COMPLETED} => (task.times # <<>> /\ AllClosed(task.times))

\* C19: a start issued on a Created or Paused task never finds the previous
\* interval open, and a pause or complete issued on a Running task never
\* finds the last interval missing or already closed.
C19_DefensiveChecksUnreached ==
  [][ /\ (call' = "start" /\ task.status \in {CREATED, PAUSED})
         => (outcome' = "ok" /\ (task.times = <<>> \/ ~IsOpen(Last(task.times))))
      /\ (call' \in {"pause", "complete"} /\ task.status = RUNNING)
         => (outcome' = "ok" /\ task.times # <<>> /\ IsOpen(Last(task.times)))
    ]_vars

\* C19 witness: a paused task has been started again and then completed
C19_Witness ==
  /\ call = "complete" /\ outcome = "ok"
  /\ Len(task.times) = 2
  /\ task.status = COMPLETED

\* C20 (as claimed): the task read back from its written record has the same
\* uuid, description, status, notes and intervals (same start and end
\* instants), and with only closed intervals the same minutes.
C20_ReloadKeepsTask ==
  LET back == deserialize(serialize(task))
  IN /\ back = task
     /\ AllClosed(task.times) => minutes(back.times, clock) = minutes(task.times, clock)

\* the record x with every open-interval sentinel spelled as str(None)
WithNoneSpelled(x) ==
  [x EXCEPT !.times = [i \in 1..Len(x.times) |->
     <<x.times[i][1], IF x.times[i][2] \in SentinelTexts THEN "None" ELSE x.times[i][2]>>]]

ListAt(d, date) == IF date \in DOMAIN d.tasks_data THEN d.tasks_data[date] ELSE <<>>

\* the places <<date, index>> of the tasks the error scan is to report
Stale(d, today_key) ==
  {<<k, i>> \in (DOMAIN d.tasks_data) \X (1..MaxTasks) :
     /\ k # today_key
     /\ i <= Len(d.tasks_data[k])
     /\ d.tasks_data[k][i].status # COMPLETED}

HardError(o) == o \notin {"ok", "noop"}

\* the step is a command of main: the load, --add, an update or the error scan
CommandStep ==
  \/ pc = "idle" /\ call' = "load"
  \/ pc = "add" /\ call' = "add_task"
  \/ pc = "update" /\ call' = "update_task"
  \/ pc = "errors" /\ call' = "errors"

\* C12 (as claimed): for every fragment and date, a date without a task list
\* included: exactly one matching task gets the action; no match fails with
\* the not-found error, several with the ambiguous error, and then no task
\* is changed.
C12_LookupByFragment ==
  [][ (pc = "update" /\ call' = "update_task")
      => LET lst == ListAt(doc, doc.working_date)
             hits == {i \in 1..Len(lst) : Contains(arg'.task, lst[i].uuid)}
         IN /\ hits = {}
               => (outcome' = "LookupError: No tasks found" /\ doc' = doc)
            /\ Cardinality(hits) > 1
               => (outcome' = "LookupError: More than 1 task found" /\ doc' = doc)
            /\ Cardinality(hits) = 1
               => /\ outcome' \notin {"KeyError", "LookupError: No tasks found",
                                      "LookupError: More than 1 task found"}
                  /\ \A i \in 1..Len(lst) :
                       ListAt(doc', doc.working_date)[i] =
                         IF i \in hits
                           THEN dispatch(lst[i], arg'.action, arg'.note, clock').task
                           ELSE lst[i]
    ]_vars

\* C13 (as claimed): when an invocation ends in a hard error the file is as it
\* was when the invocation began.
C13_FailedInvocationWritesNothing ==
  pc = "failed" => file = file0

\* C13 (amended): a command that ends in a hard error writes nothing itself:
\* the file after the failed command is the file before that command.
C13_FailedCommandWritesNothing ==
  [][ (CommandStep /\ HardError(outcome')) => file' = file ]_vars

\* C13 witness: an update_task has failed in an invocation whose --add had
\* already been written
C13_Witness ==
  /\ pc = "failed"
  /\ call = "update_task"
  /\ file # file0
  /\ file0.exists

\* C14: add_task appends exactly one task (Created, no intervals, no notes) to
\* the end of the date's list, creating the list when the date has none;
\* every existing task, every other date's list and the metadata are as
\* before; the file holds the resulting lists.
C14_AddTaskFrame ==
  [][ (pc = "add" /\ call' = "add_task")
      => LET date == doc.working_date
             old == ListAt(doc, date)
             now == ListAt(doc', date)
         IN /\ outcome' = "ok"
            /\ DOMAIN doc'.tasks_data = DOMAIN doc.tasks_data \cup {date}
            /\ Len(now) = Len(old) + 1
            /\ SubSeq(now, 1, Len(old)) = old
            /\ Last(now).status = CREATED
            /\ Last(now).times = <<>>
            /\ Last(now).notes = <<>>
            /\ \A k \in DOMAIN doc.tasks_data \ {date} : doc'.tasks_data[k] = doc.tasks_data[k]
            /\ doc'.other_data = doc.other_data
            /\ file'.exists
            /\ \A k \in DOMAIN doc'.tasks_data :
                 /\ k \in DOMAIN file'.top
                 /\ file'.top[k].kind = "list"
                 /\ Len(file'.top[k].items) = Len(doc'.tasks_data[k])
                 /\ \A i \in 1..Len(doc'.tasks_data[k]) :
                      /\ file'.top[k].items[i].uuid = doc'.tasks_data[k][i].uuid
                      /\ file'.top[k].items[i].status = doc'.tasks_data[k][i].status
                      /\ Len(file'.top[k].items[i].times) = Len(doc'.tasks_data[k][i].times)
                      /\ file'.top[k].items[i].notes = doc'.tasks_data[k][i].notes
    ]_vars

\* C14 witness: a task has just been added behind a task that is no longer
\* Created, while another date is absent from the store
C14_Witness ==
  /\ call = "add_task"
  /\ pc = "update"
  /\ Len(ListAt(doc, doc.working_date)) = 2
  /\ doc.tasks_data[doc.working_date][1].status # CREATED
  /\ \E k \in DateKeys : k \notin DOMAIN doc.tasks_data

\* C15 (as claimed): the error scan reports exactly the tasks under a date key
\* other than today's whose status is not Completed.
C15_ScanReportsStale ==
  [][ (pc = "errors" /\ call' = "errors") => ret' = Stale(doc, DateKey(DateOf(clock'))) ]_vars

\* C16 (as claimed): every metadata key/value loaded is in the file with the
\* same value after any sequence of commands and writes.
C16_MetadataKept ==
  doc # NoDoc
  => \A k \in DOMAIN doc.other_data :
       k \in DOMAIN file.top /\ file.top[k] = doc.other_data[k]

====
